---- MODULE Spec2Model ----
(***************************************************************************)
(* The login and registration screens of eDocufy.                          *)
(*                                                                         *)
(* Each screen is a React component holding `form`, `error` and `loading`. *)
(* A submit handler is an async function: the code from the click to the   *)
(* first await runs as one step, and so does the code between two awaits.  *)
(* The handler reads `form` through the closure of the render in which the *)
(* button was clicked, so edits made while a request is in flight do not   *)
(* reach it: `closure` is that captured form.                              *)
(*                                                                         *)
(* Text is a sequence of one-character strings, so that the regular        *)
(* expressions, .length and .trim() are computed and not assumed.          *)
(***************************************************************************)
EXTENDS Integers, Sequences, FiniteSets, TLC

VARIABLES
    screen,        \* the mounted component: "login", "signup" or "signupAlt"
    form,          \* useState form
    error,         \* useState error (the displayed error, "" when none)
    loading,       \* useState loading
    pc,            \* where the running handler is suspended, "idle" when none
    closure,       \* the form captured by the running (or last) handler
    response,      \* handleLogin: the Response fetch resolved with
    citizenData,   \* handleRegister: the row the citizen lookup returned
    authData,      \* handleRegister: the user id sign-up returned
    route,         \* the router's location
    localStorage,  \* the value under the key 'token'
    users,         \* rows this client inserted into the 'users' table
    result,        \* how the last invocation ended
    log            \* the effects of the running (or last) invocation, in order

vars == <<screen, form, error, loading, pc, closure, response, citizenData,
          authData, route, localStorage, users, result, log>>

----------------------------------------------------------------------------
(* Bounds and program constants *)

\* Candidate texts fall short of each minimum length the validators test by up
\* to Slack characters (and exceed each maximum by one).
Slack == 1

IdLen == 13
PhoneMin == 10
PhoneMax == 15
PasswordMin == 8

----------------------------------------------------------------------------
(* Text *)

Digits == {"0", "1", "2", "3", "4", "5", "6", "7", "8", "9"}
WhiteSpace == {" "}

Rep(c, n) == [i \in 1..n |-> c]

AllDigits(s) == \A i \in 1..Len(s) : s[i] \in Digits

\* String.prototype.trim
RECURSIVE TrimStart(_)
TrimStart(s) ==
    IF Len(s) > 0 /\ Head(s) \in WhiteSpace THEN TrimStart(Tail(s)) ELSE s

RECURSIVE TrimEnd(_)
TrimEnd(s) ==
    IF Len(s) > 0 /\ s[Len(s)] \in WhiteSpace
    THEN TrimEnd(SubSeq(s, 1, Len(s) - 1))
    ELSE s

trim(s) == TrimEnd(TrimStart(s))

\* JavaScript's !x on a text: the empty string is falsy.
Truthy(s) == Len(s) > 0

\* Values that come from outside (messages, tokens, ids) are opaque: TLA+ strings,
\* with Undefined for an absent property. x || d on such a value.
Undefined == "<undefined>"
Present(x) == x \notin {Undefined, ""}
OrElse(x, d) == IF Present(x) THEN x ELSE d

----------------------------------------------------------------------------
(* Messages *)

Null == "<null>"

MsgFillAll == "Please fill in all fields."
MsgIdNumber == "ID Number must be 13 digits."
MsgIdLogin == "ID must be 13 digits."
MsgPhone == "Invalid phone number."
MsgPasswordShort == "Password must be at least 8 characters."
MsgPasswordMatch == "Passwords do not match."
MsgNoCitizen == "No matching record found in government database."
MsgLoginFailed == "Login failed."
MsgLoginFallback == "Login failed. Check ID and password."
MsgRegistrationFailed == "Registration failed."

\* Messages of errors the runtime raises.
MsgJsonSyntax == "Unexpected token < in JSON at position 0"
MsgNullProperty == "Cannot read properties of null"
MsgNetwork == "Failed to fetch"

----------------------------------------------------------------------------
(* Validators *)

\* A variant that forgets the \d: any 13 characters pass.
TestIdNumber_LengthOnly(idNumber) == Len(idNumber) = IdLen

\* /^\d{13}$/.test(idNumber)
TestIdNumber(idNumber) == Len(idNumber) = IdLen /\ AllDigits(idNumber)

\* /^\+?\d{10,15}$/.test(phone)
TestPhone(phone) ==
    LET d == IF Len(phone) > 0 /\ Head(phone) = "+" THEN Tail(phone) ELSE phone
    IN  Len(d) >= PhoneMin /\ Len(d) <= PhoneMax /\ AllDigits(d)

\* A variant without the empty-field rule.
Login_validateForm_NoEmptyRule(f) ==
    IF ~(Len(f.idNumber) = IdLen /\ AllDigits(f.idNumber)) THEN MsgIdLogin ELSE Null

Login_validateForm(f) ==
    IF ~Truthy(f.idNumber) \/ ~Truthy(f.password) THEN MsgFillAll
    ELSE IF ~TestIdNumber(f.idNumber) THEN MsgIdLogin
    ELSE Null

\* A variant that tests the password length before the phone.
SignUp_validateForm_Reordered(f) ==
    IF  \/ ~Truthy(f.name) \/ ~Truthy(f.surname) \/ ~Truthy(f.idNumber)
        \/ ~Truthy(f.phone) \/ ~Truthy(f.password) \/ ~Truthy(f.confirmPassword)
    THEN MsgFillAll
    ELSE IF ~(Len(f.idNumber) = IdLen /\ AllDigits(f.idNumber)) THEN MsgIdNumber
    ELSE IF Len(f.password) < PasswordMin THEN MsgPasswordShort
    ELSE IF ~TestPhone(f.phone) THEN MsgPhone
    ELSE IF f.password # f.confirmPassword THEN MsgPasswordMatch
    ELSE Null

SignUp_validateForm(f) ==
    IF  \/ ~Truthy(f.name) \/ ~Truthy(f.surname) \/ ~Truthy(f.idNumber)
        \/ ~Truthy(f.phone) \/ ~Truthy(f.password) \/ ~Truthy(f.confirmPassword)
    THEN MsgFillAll
    ELSE IF ~TestIdNumber(f.idNumber) THEN MsgIdNumber
    ELSE IF ~TestPhone(f.phone) THEN MsgPhone
    ELSE IF Len(f.password) < PasswordMin THEN MsgPasswordShort
    ELSE IF f.password # f.confirmPassword THEN MsgPasswordMatch
    ELSE Null

Alt_validateForm(f) ==
    IF  \/ ~Truthy(f.name) \/ ~Truthy(f.surname) \/ ~Truthy(f.idNumber)
        \/ ~Truthy(f.phone) \/ ~Truthy(f.password) \/ ~Truthy(f.confirmPassword)
    THEN MsgFillAll
    ELSE IF ~TestIdNumber(f.idNumber) THEN MsgIdNumber
    ELSE IF ~TestPhone(f.phone) THEN MsgPhone
    ELSE IF Len(f.password) < PasswordMin THEN MsgPasswordShort
    ELSE IF f.password # f.confirmPassword THEN MsgPasswordMatch
    ELSE Null

----------------------------------------------------------------------------
(* What the user can type *)

Screens == {"login", "signup", "signupAlt"}

Fields(s) ==
    IF s = "login" THEN {"idNumber", "password"}
    ELSE {"name", "surname", "idNumber", "phone", "password", "confirmPassword"}

AllFields == {"name", "surname", "idNumber", "phone", "password", "confirmPassword"}

EmptyForm == [k \in AllFields |-> <<>>]

IdValues ==
    {<<>>, Rep("7", IdLen - 1) \o <<"x">>}
        \cup {Rep("7", n) : n \in (IdLen - Slack)..(IdLen + 1)}

PhoneValues ==
    {<<>>, <<"+">> \o Rep("0", PhoneMax)}
        \cup {Rep("0", n) : n \in (PhoneMin - Slack)..PhoneMin}
        \cup {Rep("0", PhoneMax + 1)}

PasswordValues ==
    {<<>>, Rep("p", PasswordMin - 1) \o <<" ">>}
        \cup {Rep("p", n) : n \in (PasswordMin - Slack)..PasswordMin}

ConfirmValues == {<<>>, Rep("p", PasswordMin - 1) \o <<" ">>, Rep("p", PasswordMin)}

Values(k) ==
    CASE k = "name" -> {<<>>, <<"A">>}
      [] k = "surname" -> {<<>>, <<"B">>}
      [] k = "idNumber" -> IdValues
      [] k = "phone" -> PhoneValues
      [] k = "password" -> PasswordValues
      [] k = "confirmPassword" -> ConfirmValues

Path(s) == IF s = "login" THEN "/login" ELSE "/signup"

Mounted == route = Path(screen)

----------------------------------------------------------------------------
(* Initial state: one screen freshly mounted *)

NoResponse == [ok |-> FALSE, body |-> [kind |-> "none"]]

Init ==
    /\ screen \in Screens
    /\ form = EmptyForm
    /\ error = ""
    /\ loading = FALSE
    /\ pc = "idle"
    /\ closure = EmptyForm
    /\ response = NoResponse
    /\ citizenData = Null
    /\ authData = Null
    /\ route = Path(screen)
    /\ localStorage = Null
    /\ users = {}
    /\ result = "none"
    /\ log = <<>>

----------------------------------------------------------------------------
(* handleChange, the same on the three screens *)

handleChange ==
    /\ Mounted
    /\ \E k \in Fields(screen) : \E v \in Values(k) :
          form' = [form EXCEPT ![k] = v]
    /\ error' = ""
    /\ UNCHANGED <<screen, loading, pc, closure, response, citizenData, authData,
                   route, localStorage, users, result, log>>

----------------------------------------------------------------------------
(* Effects, as the log records them *)

Effect(op, arg) == [op |-> op, arg |-> arg]

\* A variant without the finally block.
Fail_NoFinally(received, message, fallback) ==
    /\ error' = OrElse(message, fallback)
    /\ pc' = "idle"
    /\ result' = "failed"
    /\ log' = log \o received \o <<Effect("setError", OrElse(message, fallback))>>
    /\ UNCHANGED loading

\* catch (err) { setError(err.message || fallback) } finally { setLoading(false) }
\* `received` is what the awaited call returned before the throw, for the log.
Fail(received, message, fallback) ==
    /\ error' = OrElse(message, fallback)
    /\ loading' = FALSE
    /\ pc' = "idle"
    /\ result' = "failed"
    /\ log' = log \o received
                   \o <<Effect("setError", OrElse(message, fallback)),
                        Effect("setLoading", "false")>>

----------------------------------------------------------------------------
(* Login_Screen.tsx: handleLogin *)

Bodies ==
    {[kind |-> k, message |-> Undefined, token |-> Undefined] : k \in {"invalid", "null"}}
        \cup {[kind |-> "object", message |-> m, token |-> t] :
                m \in {Undefined, "", "bad creds"}, t \in {Undefined, "", "abc"}}

Responses == [ok : BOOLEAN, body : Bodies]

\* A variant that tests the token for undefined instead of truthiness.
HasToken_Defined(data) == data.token # Undefined

\* if (data.token)
HasToken(data) == Present(data.token)

\* The click: validation, then setLoading(true) and the fetch call.
handleLogin ==
    /\ screen = "login" /\ Mounted /\ ~loading
    /\ closure' = IF Login_validateForm(form) = Null THEN form ELSE EmptyForm
    /\ response' = NoResponse
    /\ LET validationError == Login_validateForm(form)
       IN  IF validationError # Null
           THEN /\ error' = validationError
                /\ result' = "invalid"
                /\ log' = <<Effect("setError", validationError)>>
                /\ UNCHANGED <<loading, pc>>
           ELSE /\ loading' = TRUE
                /\ pc' = "fetch"
                /\ result' = "pending"
                /\ log' = <<Effect("setLoading", "true"),
                            Effect("fetch", [idNumber |-> form.idNumber,
                                             password |-> form.password])>>
                /\ UNCHANGED error
    /\ UNCHANGED <<screen, form, citizenData, authData, route, localStorage, users>>

\* await fetch(...) resolves with a Response, of any status.
FetchResolve ==
    /\ screen = "login" /\ pc = "fetch"
    /\ \E r \in Responses : response' = r
    /\ pc' = "json"
    /\ UNCHANGED <<screen, form, error, loading, closure, citizenData, authData,
                   route, localStorage, users, result, log>>

\* await fetch(...) rejects: a transport failure.
FetchReject ==
    /\ screen = "login" /\ pc = "fetch"
    /\ Fail(<<>>, MsgNetwork, MsgLoginFallback)
    /\ UNCHANGED <<screen, form, closure, response, citizenData, authData, route,
                   localStorage, users>>

\* await response.json() rejects: the body is not JSON.
JsonReject ==
    /\ screen = "login" /\ pc = "json"
    /\ response.body.kind = "invalid"
    /\ Fail(<<>>, MsgJsonSyntax, MsgLoginFallback)
    /\ UNCHANGED <<screen, form, closure, response, citizenData, authData, route,
                   localStorage, users>>

\* await response.json() resolves with data; the rest of the handler follows.
JsonResolve ==
    /\ screen = "login" /\ pc = "json"
    /\ response.body.kind # "invalid"
    /\ LET data == response.body
       IN  IF data.kind = "null"
           THEN \* data.message, or data.token, of null throws a TypeError
                /\ Fail(<<>>, MsgNullProperty, MsgLoginFallback)
                /\ UNCHANGED <<route, localStorage>>
           ELSE IF ~response.ok
           THEN /\ Fail(<<>>, OrElse(data.message, MsgLoginFailed), MsgLoginFallback)
                /\ UNCHANGED <<route, localStorage>>
           ELSE /\ localStorage' = IF HasToken(data) THEN data.token
                                   ELSE localStorage
                /\ route' = "/home"
                /\ loading' = FALSE
                /\ pc' = "idle"
                /\ result' = "success"
                /\ log' = log
                     \o (IF HasToken(data)
                         THEN <<Effect("setItem", data.token)>> ELSE <<>>)
                     \o <<Effect("navigate", "/home"), Effect("setLoading", "false")>>
                /\ UNCHANGED error
    /\ UNCHANGED <<screen, form, closure, response, citizenData, authData, users>>

----------------------------------------------------------------------------
(* SignUp_Screen.tsx: handleRegister *)

Chars_user == <<"u", "s", "e", "r">>
Chars_example == <<"@", "e", "x", "a", "m", "p", "l", "e", ".", "c", "o", "m">>

\* `user${form.idNumber}@example.com`
fakeEmail(f) == Chars_user \o f.idNumber \o Chars_example

CitizenIds == {"c1"}
UserIds == {"u1"}

LookupResults ==
    {[error |-> TRUE, data |-> Null], [error |-> FALSE, data |-> Null]}
        \cup {[error |-> FALSE, data |-> c] : c \in CitizenIds}

SignUpResults ==
    {[error |-> TRUE, message |-> m, user |-> Null] : m \in {"User already registered", ""}}
        \cup {[error |-> FALSE, message |-> Undefined, user |-> u] : u \in UserIds}

DuplicateKey == "23505"

InsertResults ==
    {[error |-> FALSE, code |-> Undefined, message |-> Undefined]}
        \cup {[error |-> TRUE, code |-> c, message |-> m] :
                c \in {DuplicateKey, "42501"}, m \in {"insert failed", ""}}

\* A variant that tests the error alone.
LookupFailed_ErrorOnly(r) == r.error

\* if (citizenError || !citizenData)
LookupFailed(r) == r.error \/ r.data = Null

\* A variant that does not ignore the duplicate key.
InsertFatal_AnyError(r) == r.error

\* if (dbError && dbError.code !== '23505')
InsertFatal(r) == r.error /\ r.code # DuplicateKey

\* The click: setError(''), validation, then setLoading(true) and the lookup.
handleRegister ==
    /\ screen = "signup" /\ Mounted /\ ~loading
    /\ closure' = IF SignUp_validateForm(form) = Null THEN form ELSE EmptyForm
    /\ citizenData' = Null
    /\ authData' = Null
    /\ LET formError == SignUp_validateForm(form)
       IN  IF formError # Null
           THEN /\ error' = formError
                /\ result' = "invalid"
                /\ log' = <<Effect("setError", ""), Effect("setError", formError)>>
                /\ UNCHANGED <<loading, pc>>
           ELSE /\ error' = ""
                /\ loading' = TRUE
                /\ pc' = "lookup"
                /\ result' = "pending"
                /\ log' = <<Effect("setError", ""),
                            Effect("setLoading", "true"),
                            Effect("lookup", form.idNumber)>>
    /\ UNCHANGED <<screen, form, response, route, localStorage, users>>

\* The citizen query resolves; on a row, the sign-up call follows.
LookupResolve ==
    /\ screen = "signup" /\ pc = "lookup"
    /\ \E r \in LookupResults :
          /\ citizenData' = r.data
          /\ IF LookupFailed(r)
             THEN Fail(<<Effect("lookupResult", r)>>, MsgNoCitizen,
                       MsgRegistrationFailed)
             ELSE /\ pc' = "signUp"
                  /\ log' = log \o
                       <<Effect("lookupResult", r),
                         Effect("signUp", [email |-> trim(fakeEmail(closure)),
                                           password |-> trim(closure.password),
                                           phone |-> trim(closure.phone)])>>
                  /\ UNCHANGED <<error, loading, result>>
    /\ UNCHANGED <<screen, form, closure, response, authData, route,
                   localStorage, users>>

\* A variant that writes the user id into citizen_id.
UserRow_WrongCitizen(user, citizen, f) ==
    [user_id |-> IF user = Null THEN Undefined ELSE user,
     citizen_id |-> user,
     email |-> fakeEmail(f),
     phone |-> f.phone]

UserRow(user, citizen, f) ==
    [user_id |-> IF user = Null THEN Undefined ELSE user,
     citizen_id |-> citizen,
     email |-> fakeEmail(f),
     phone |-> f.phone]

\* The sign-up call resolves; without an error, the insert call follows.
SignUpResolve ==
    /\ screen = "signup" /\ pc = "signUp"
    /\ \E r \in SignUpResults :
          /\ authData' = r.user
          /\ IF r.error
             THEN Fail(<<Effect("signUpResult", r)>>, r.message,
                       MsgRegistrationFailed)
             ELSE /\ pc' = "insert"
                  /\ log' = log \o
                       <<Effect("signUpResult", r),
                         Effect("insert", UserRow(r.user, citizenData, closure))>>
                  /\ UNCHANGED <<error, loading, result>>
    /\ UNCHANGED <<screen, form, closure, response, citizenData, route,
                   localStorage, users>>

\* The insert resolves; a duplicate key counts as success.
InsertResolve ==
    /\ screen = "signup" /\ pc = "insert"
    /\ \E r \in InsertResults :
          /\ users' = IF r.error THEN users
                      ELSE users \cup {UserRow(authData, citizenData, closure)}
          /\ IF InsertFatal(r)
             THEN /\ Fail(<<Effect("insertResult", r)>>, r.message,
                          MsgRegistrationFailed)
                  /\ UNCHANGED route
             ELSE /\ route' = "/login"
                  /\ loading' = FALSE
                  /\ pc' = "idle"
                  /\ result' = "success"
                  /\ log' = log \o
                       <<Effect("insertResult", r),
                         Effect("navigate", "/login"),
                         Effect("setLoading", "false")>>
                  /\ UNCHANGED error
    /\ UNCHANGED <<screen, form, closure, response, citizenData, authData,
                   localStorage>>

----------------------------------------------------------------------------
(* The other sign-up screen: handleRegister without lookup and insert *)

Alt_handleRegister ==
    /\ screen = "signupAlt" /\ Mounted /\ ~loading
    /\ closure' = IF Alt_validateForm(form) = Null THEN form ELSE EmptyForm
    /\ authData' = Null
    /\ LET formError == Alt_validateForm(form)
       IN  IF formError # Null
           THEN /\ error' = formError
                /\ result' = "invalid"
                /\ log' = <<Effect("setError", ""), Effect("setError", formError)>>
                /\ UNCHANGED <<loading, pc>>
           ELSE /\ error' = ""
                /\ loading' = TRUE
                /\ pc' = "signUp"
                /\ result' = "pending"
                /\ log' = <<Effect("setError", ""),
                            Effect("setLoading", "true"),
                            Effect("signUp", [email |-> fakeEmail(form),
                                              password |-> form.password,
                                              phone |-> form.phone])>>
    /\ UNCHANGED <<screen, form, response, citizenData, route, localStorage, users>>

Alt_SignUpResolve ==
    /\ screen = "signupAlt" /\ pc = "signUp"
    /\ \E r \in SignUpResults :
          /\ authData' = r.user
          /\ IF r.error
             THEN /\ Fail(<<Effect("signUpResult", r)>>, r.message,
                          MsgRegistrationFailed)
                  /\ UNCHANGED route
             ELSE /\ route' = "/login"
                  /\ loading' = FALSE
                  /\ pc' = "idle"
                  /\ result' = "success"
                  /\ log' = log \o
                       <<Effect("signUpResult", r),
                         Effect("alert", "Registration successful!"),
                         Effect("navigate", "/login"),
                         Effect("setLoading", "false")>>
                  /\ UNCHANGED error
    /\ UNCHANGED <<screen, form, closure, response, citizenData, localStorage,
                   users>>

----------------------------------------------------------------------------

Next ==
    \/ handleChange
    \/ handleLogin
    \/ FetchResolve
    \/ FetchReject
    \/ JsonReject
    \/ JsonResolve
    \/ handleRegister
    \/ LookupResolve
    \/ SignUpResolve
    \/ InsertResolve
    \/ Alt_handleRegister
    \/ Alt_SignUpResolve

Spec == Init /\ [][Next]_vars

----------------------------------------------------------------------------
(* Reading the log *)

Ops(op) == {i \in 1..Len(log) : log[i].op = op}
Count(op) == Cardinality(Ops(op))
Last(op) == CHOOSE i \in Ops(op) : \A j \in Ops(op) : j <= i
LastArg(op) == log[Last(op)].arg

\* The error the flow left on display when it ended.
Displayed == LastArg("setError")

Ended == pc = "idle" /\ result \in {"success", "failed"}

\* The rules of the validator contract, stated on the text itself.
IsIdNumber(s) == s \in [1..IdLen -> Digits]

IsPhone(s) ==
    \E n \in PhoneMin..PhoneMax :
        \/ s \in [1..n -> Digits]
        \/ Len(s) = n + 1 /\ s[1] = "+" /\ \A i \in 2..(n + 1) : s[i] \in Digits

Violated(f) ==
    (IF \E k \in AllFields : f[k] = <<>> THEN {1} ELSE {})
        \cup (IF ~IsIdNumber(f.idNumber) THEN {2} ELSE {})
        \cup (IF ~IsPhone(f.phone) THEN {3} ELSE {})
        \cup (IF Len(f.password) < PasswordMin THEN {4} ELSE {})
        \cup (IF f.password # f.confirmPassword THEN {5} ELSE {})

RuleMessage ==
    <<MsgFillAll, MsgIdNumber, MsgPhone, MsgPasswordShort, MsgPasswordMatch>>

FirstViolated(f) ==
    IF Violated(f) = {} THEN Null
    ELSE RuleMessage[CHOOSE i \in Violated(f) : \A j \in Violated(f) : i <= j]

ExpectedEmail(f) ==
    <<"u", "s", "e", "r">> \o f.idNumber
        \o <<"@", "e", "x", "a", "m", "p", "l", "e", ".", "c", "o", "m">>

----------------------------------------------------------------------------
(* C1 *)

\* C1: on the sign-up screen, sign-up is called only after a lookup that
\* returned a record and the insert only after a sign-up without error; a
\* lookup that returned an error or no row ends the flow with "No matching
\* record found in government database." on display and with no sign-up, no
\* insert and no navigation.
C1_LookupGatesRegistration ==
    screen = "signup" =>
        /\ \A i \in Ops("signUp") :
              \E j \in Ops("lookupResult") :
                  j < i /\ ~log[j].arg.error /\ log[j].arg.data \in CitizenIds
        /\ \A i \in Ops("insert") :
              \E j \in Ops("signUpResult") : j < i /\ ~log[j].arg.error
        /\ (\E j \in Ops("lookupResult") : log[j].arg.error \/ log[j].arg.data = Null)
              => /\ Ended /\ result = "failed"
                 /\ Displayed = MsgNoCitizen
                 /\ error \in {MsgNoCitizen, ""}
                 /\ Count("signUp") = 0 /\ Count("insert") = 0
                 /\ Count("navigate") = 0 /\ route = "/signup" /\ users = {}

C1_Witness ==
    /\ screen = "signup" /\ Ended
    /\ \E j \in Ops("lookupResult") : ~log[j].arg.error /\ log[j].arg.data = Null
    /\ error = MsgNoCitizen

----------------------------------------------------------------------------
(* C2 *)

\* C2 as stated: after the insert resolved, navigation to /login occurs iff it
\* returned no error or the duplicate-key code; otherwise that error's message
\* is the displayed error.
C2_InsertMessageDisplayed ==
    (screen = "signup" /\ Count("insertResult") > 0) =>
        LET r == LastArg("insertResult")
        IN  /\ (Count("navigate") = 1) <=> (~r.error \/ r.code = DuplicateKey)
            /\ (r.error /\ r.code # DuplicateKey)
                  => Displayed = r.message /\ Count("navigate") = 0

\* C2, amended: navigation to /login occurs iff the insert returned no error or
\* the duplicate-key code; for any other error the displayed error is that
\* error's message when it is not empty and "Registration failed." when it is,
\* and no navigation occurs.
C2_DuplicateKeyIsSuccess ==
    screen = "signup" =>
        IF Count("insertResult") = 0
        THEN Count("navigate") = 0 /\ route = "/signup"
        ELSE LET r == LastArg("insertResult")
             IN  /\ (Count("navigate") = 1 /\ route = "/login")
                        <=> (~r.error \/ r.code = DuplicateKey)
                 /\ (r.error /\ r.code # DuplicateKey)
                       => /\ Displayed = (IF r.message = "" THEN MsgRegistrationFailed
                                          ELSE r.message)
                          /\ Count("navigate") = 0 /\ route = "/signup"

C2_Witness ==
    /\ screen = "signup" /\ Count("insertResult") > 0
    /\ LastArg("insertResult").error
    /\ LastArg("insertResult").code = DuplicateKey
    /\ route = "/login"

----------------------------------------------------------------------------
(* C3 *)

HasTruthyToken(r) ==
    r.body.kind = "object" /\ r.body.token \notin {Undefined, ""}

StoredThenNavigated(t) ==
    /\ Count("setItem") = 1 /\ LastArg("setItem") = t /\ localStorage = t
    /\ Count("navigate") = 1 /\ LastArg("navigate") = "/home" /\ route = "/home"
    /\ Last("setItem") < Last("navigate")

NavigatedOnly ==
    /\ Count("setItem") = 0 /\ localStorage = Null
    /\ Count("navigate") = 1 /\ LastArg("navigate") = "/home" /\ route = "/home"

\* C3 as stated: a success response with a truthy token t stores t under 'token'
\* and then navigates to /home once; a success response without a token
\* navigates to /home once and stores nothing.
C3_EverySuccessNavigates ==
    (screen = "login" /\ Ended /\ response.body.kind # "none" /\ response.ok) =>
        IF HasTruthyToken(response) THEN StoredThenNavigated(response.body.token)
        ELSE NavigatedOnly

\* C3, amended: the same for a success response whose body parses as JSON to a
\* value other than null; a success response whose body is not JSON, or is
\* null, ends in failure with no storage write and no navigation.
C3_ParsedSuccessNavigates ==
    (screen = "login" /\ Ended /\ response.body.kind # "none" /\ response.ok) =>
        IF response.body.kind = "object"
        THEN IF HasTruthyToken(response)
             THEN StoredThenNavigated(response.body.token)
             ELSE NavigatedOnly
        ELSE /\ result = "failed"
             /\ Count("setItem") = 0 /\ localStorage = Null
             /\ Count("navigate") = 0 /\ route = "/login"

C3_Witness ==
    /\ screen = "login" /\ Ended /\ response.ok
    /\ response.body.kind = "object" /\ response.body.token = "abc"
    /\ localStorage = "abc" /\ route = "/home"

----------------------------------------------------------------------------
(* C4 *)

ServerMessage(r) ==
    IF r.body.kind = "object" /\ r.body.message \notin {Undefined, ""}
    THEN r.body.message
    ELSE MsgLoginFailed

\* C4: every response with a non-success status, one whose body is not JSON
\* included, ends the flow with the server's message on display, or "Login
\* failed." when there is none, and with no storage write and no navigation.
C4_NonSuccessShowsServerMessage ==
    (screen = "login" /\ Ended /\ response.body.kind # "none" /\ ~response.ok) =>
        /\ result = "failed"
        /\ Displayed = ServerMessage(response)
        /\ Count("setItem") = 0 /\ localStorage = Null
        /\ Count("navigate") = 0 /\ route = "/login"

----------------------------------------------------------------------------
(* C5 *)

SetLoadingArgs == [i \in 1..Count("setLoading") |->
    log[CHOOSE j \in Ops("setLoading") :
            Cardinality({k \in Ops("setLoading") : k <= j}) = i].arg]

\* C5 as stated: on every screen the loading flag is true exactly from the
\* submit invocation to the end of the flow, invocations that end at
\* validation failure included: every invocation sets it.
C5_EveryInvocationSetsLoading ==
    /\ loading = (result = "pending")
    /\ result # "none" => \E i \in Ops("setLoading") : log[i].arg = "true"

\* C5, amended: the loading flag is true exactly from a submit invocation that
\* passes validation to the end of that flow; an invocation that ends at
\* validation failure never sets it.
C5_LoadingSpansValidatedFlow ==
    /\ loading = (pc # "idle")
    /\ loading = (result = "pending")
    /\ result = "invalid" => SetLoadingArgs = <<>>
    /\ result = "pending" => SetLoadingArgs = <<"true">>
    /\ result \in {"success", "failed"} =>
          /\ SetLoadingArgs = <<"true", "false">>
          /\ Last("setLoading") = Len(log)

C5_Witness ==
    /\ screen = "login" /\ result = "failed" /\ ~loading
    /\ SetLoadingArgs = <<"true", "false">>

----------------------------------------------------------------------------
(* C6 *)

\* C6: on both sign-up screens validateForm returns no error or the message of
\* the first violated rule, in the order empty field, idNumber, phone, password
\* length, password confirmation; and that is what a rejected submit displays.
C6_FirstViolatedRuleWins ==
    screen \in {"signup", "signupAlt"} =>
        /\ SignUp_validateForm(form) = FirstViolated(form)
        /\ Alt_validateForm(form) = FirstViolated(form)
        /\ (result = "invalid" /\ error # "") => error = FirstViolated(form)

C6_Witness ==
    /\ screen = "signup" /\ result = "invalid"
    /\ Violated(form) = {5}
    /\ error = MsgPasswordMatch

----------------------------------------------------------------------------
(* C7 *)

ScreenValidator(f) ==
    CASE screen = "login" -> Login_validateForm(f)
      [] screen = "signup" -> SignUp_validateForm(f)
      [] screen = "signupAlt" -> Alt_validateForm(f)

IdFormatError == IF screen = "login" THEN MsgIdLogin ELSE MsgIdNumber

\* C7 as stated: an idNumber that is not 13 digits yields the screen's
\* ID-format error whatever the other fields are, empty ones included (taken
\* here for an idNumber that was typed in, the case least in doubt).
C7_BadIdAlwaysIdError ==
    (form.idNumber # <<>> /\ ~IsIdNumber(form.idNumber))
        => ScreenValidator(form) = IdFormatError

\* C7, amended: an idNumber that is not 13 digits yields the screen's ID-format
\* error whenever none of the screen's fields is empty, whatever the validity
\* of the other fields; with an empty field the result is "Please fill in all
\* fields.".
C7_BadIdAmongFilledFields ==
    ~IsIdNumber(form.idNumber) =>
        ScreenValidator(form) =
            (IF \E k \in Fields(screen) : form[k] = <<>> THEN MsgFillAll
             ELSE IdFormatError)

C7_Witness ==
    /\ screen = "signup" /\ result = "invalid" /\ error = MsgIdNumber
    /\ Len(form.idNumber) = IdLen /\ ~IsIdNumber(form.idNumber)
    /\ ~IsPhone(form.phone) /\ Len(form.password) < PasswordMin

----------------------------------------------------------------------------
(* C8 *)

ExpectedRow ==
    [user_id |-> authData, citizen_id |-> citizenData,
     email |-> ExpectedEmail(closure), phone |-> closure.phone]

\* C8 as stated: every registration that ends in success, on either sign-up
\* screen and on the duplicate-key path too, inserted exactly one linking row
\* that associates the new identity with the matched citizen.
C8_OneRowPerSuccess ==
    (screen \in {"signup", "signupAlt"} /\ result = "success") =>
        users = {ExpectedRow}

\* C8, amended: a registration of SignUp_Screen.tsx that ends in success made
\* exactly one insert call, for the row that associates the new identity with
\* the matched citizen, and inserted that one row when the call returned no
\* error and no row when it reported a duplicate key; the other sign-up
\* screen never inserts a linking row.
C8_AtMostOneRowPerSuccess ==
    /\ (screen = "signup" /\ result = "success") =>
          /\ Count("insert") = 1 /\ LastArg("insert") = ExpectedRow
          /\ Count("insertResult") = 1
          /\ IF LastArg("insertResult").error
             THEN LastArg("insertResult").code = DuplicateKey /\ users = {}
             ELSE users = {ExpectedRow}
    /\ screen = "signupAlt" => Count("insert") = 0 /\ users = {}

C8_Witness ==
    /\ screen = "signup" /\ result = "success"
    /\ ~LastArg("insertResult").error
    /\ Cardinality(users) = 1

----------------------------------------------------------------------------
(* C9 *)

\* C9 as stated: the login validator returns "Please fill in all fields." for
\* an empty idNumber or password, otherwise "ID Number must be 13 digits." for
\* an idNumber that is not 13 digits, otherwise nothing; handleLogin makes no
\* network call when it returns an error.
C9_LoginRulesSignUpWording ==
    screen = "login" =>
        /\ Login_validateForm(form) =
              (IF form.idNumber = <<>> \/ form.password = <<>> THEN MsgFillAll
               ELSE IF ~IsIdNumber(form.idNumber) THEN MsgIdNumber
               ELSE Null)
        /\ result = "invalid" => Count("fetch") = 0 /\ pc = "idle"

\* C9, amended: the same with the login screen's own wording of the second
\* message, "ID must be 13 digits.".
C9_LoginRules ==
    screen = "login" =>
        /\ Login_validateForm(form) =
              (IF form.idNumber = <<>> \/ form.password = <<>> THEN MsgFillAll
               ELSE IF ~IsIdNumber(form.idNumber) THEN MsgIdLogin
               ELSE Null)
        /\ result = "invalid" =>
              /\ Count("fetch") = 0 /\ pc = "idle" /\ response = NoResponse
              /\ (error # "" => error = Login_validateForm(form))

C9_Witness ==
    /\ screen = "login" /\ result = "invalid" /\ error = MsgIdLogin
    /\ Count("fetch") = 0

----------------------------------------------------------------------------
(* C10 *)

\* C10: the password passed to sign-up by SignUp_Screen.tsx is the string that
\* passed validation, so it has at least 8 characters and equals the confirmed
\* password, and the email is user<idNumber>@example.com for the validated
\* idNumber, whatever is edited while the submission is in flight.
C10_ValidatedPasswordReachesProvider ==
    screen = "signup" =>
        \A i \in Ops("signUp") :
            /\ log[i].arg.password = closure.password
            /\ log[i].arg.password = closure.confirmPassword
            /\ Len(log[i].arg.password) >= PasswordMin
            /\ log[i].arg.email = ExpectedEmail(closure)

====
